---- MODULE Spec2Model ----
(***************************************************************************)
(* Grade tracking and reporting: the three variants of the repository      *)
(*   "il"        src/j.nishimwe@alustudent.com_il.py  (100% attendance)    *)
(*   "joereport" src/joereport.py                     (75% attendance)     *)
(*   "joseph"    src/joseph.py                        (modules + tracking) *)
(* Python's true division always yields a float, so every weighted score,  *)
(* percentage and GPA is an IEEE-754 binary64 value.  The arithmetic below *)
(* is binary64 arithmetic (round to nearest, ties to even) on nonnegative  *)
(* values, carried out on multi-limb naturals.                             *)
(***************************************************************************)
EXTENDS Integers, Sequences, FiniteSets, TLC

(***************************************************************************)
(* Multi-limb naturals: little-endian sequences of limbs in 0..Base-1,     *)
(* without leading (most significant) zero limbs.  <<>> is zero.           *)
(***************************************************************************)
\* The element of a one-element set.  An operator's argument is evaluated where
\* it is used; Only({F(v) : v \in {e}}) evaluates e once and hands F its value.
Only(S) == CHOOSE v \in S : TRUE

LimbBits == 15
Base == 2^LimbBits
Precision == 53

RECURSIVE BNorm(_)
BNorm(a) ==
  IF a = <<>> THEN <<>>
  ELSE IF a[Len(a)] = 0 THEN BNorm(SubSeq(a, 1, Len(a) - 1)) ELSE a

RECURSIVE BFromInt(_)
BFromInt(n) ==
  IF n = 0 THEN <<>> ELSE <<n % Base>> \o BFromInt(n \div Base)

RECURSIVE BToInt(_)
BToInt(a) ==
  IF a = <<>> THEN 0 ELSE a[1] + Base * BToInt(Tail(a))

RECURSIVE BAddC(_, _, _)
BAddC(a, b, c) ==
  IF a = <<>> /\ b = <<>> THEN (IF c = 0 THEN <<>> ELSE <<c>>)
  ELSE LET x == IF a = <<>> THEN 0 ELSE a[1]
           y == IF b = <<>> THEN 0 ELSE b[1]
           s == x + y + c
       IN  <<s % Base>> \o BAddC(IF a = <<>> THEN <<>> ELSE Tail(a),
                                 IF b = <<>> THEN <<>> ELSE Tail(b),
                                 s \div Base)

BAdd(a, b) == BAddC(a, b, 0)

RECURSIVE BMulC(_, _, _)
BMulC(a, k, c) ==
  IF a = <<>> THEN BFromInt(c)
  ELSE LET s == a[1] * k + c
       IN  <<s % Base>> \o BMulC(Tail(a), k, s \div Base)

\* a * k for 0 <= k <= Base
BMulSmall(a, k) == BNorm(BMulC(a, k, 0))

\* <<a \div k, a % k>> for 0 < k <= Base, from the most significant limb down
RECURSIVE BDivR(_, _, _, _)
BDivR(a, k, i, r) ==
  IF i = 0 THEN <<<<>>, r>>
  ELSE Only({ Only({ <<Append(rest[1], cur \div k), rest[2]>> :
                     rest \in {BDivR(a, k, i - 1, cur % k)} }) :
              cur \in {r * Base + a[i]} })

BDivSmall(a, k) ==
  Only({ <<BNorm(qr[1]), qr[2]>> : qr \in {BDivR(a, k, Len(a), 0)} })

RECURSIVE BCmpFrom(_, _, _)
BCmpFrom(a, b, i) ==
  IF i = 0 THEN 0
  ELSE IF a[i] < b[i] THEN -1
  ELSE IF a[i] > b[i] THEN 1
  ELSE BCmpFrom(a, b, i - 1)

\* -1, 0, 1 as a < b, a = b, a > b
BCmp(a, b) ==
  IF Len(a) < Len(b) THEN -1
  ELSE IF Len(a) > Len(b) THEN 1
  ELSE BCmpFrom(a, b, Len(a))

RECURSIVE IntBitLen(_)
IntBitLen(n) == IF n = 0 THEN 0 ELSE 1 + IntBitLen(n \div 2)

BBitLen(a) ==
  IF a = <<>> THEN 0 ELSE LimbBits * (Len(a) - 1) + IntBitLen(a[Len(a)])

\* a * 2^n
BShl(a, n) ==
  IF a = <<>> THEN <<>>
  ELSE [i \in 1..(n \div LimbBits) |-> 0] \o BMulSmall(a, 2^(n % LimbBits))

\* <<a \div 2^n, c>> where c is 0, 1, 2, 3 as (a % 2^n) is zero, below, equal to
\* or above half of 2^n  (n >= 1)
BShr(a, n) ==
  LET k    == n \div LimbBits
      low  == BNorm(SubSeq(a, 1, IF k < Len(a) THEN k ELSE Len(a)))
      high == IF k < Len(a) THEN SubSeq(a, k + 1, Len(a)) ELSE <<>>
  IN  Only({ Only({ <<qr[1], IF rem = <<>> THEN 0
                             ELSE BCmp(BMulSmall(rem, 2), BShl(<<1>>, n)) + 2>> :
                    rem \in {BAdd(BShl(BFromInt(qr[2]), LimbBits * k), low)} }) :
             qr \in {BDivSmall(high, 2^(n % LimbBits))} })

(***************************************************************************)
(* binary64 values >= 0: <<M, e>> stands for M * 2^e with M a multi-limb   *)
(* natural of exactly Precision bits; zero is <<<<>>, 0>>.                 *)
(***************************************************************************)
FZero == <<<<>>, 0>>

\* The binary64 nearest to N * 2^e (ties to even); sticky says that N is the
\* floor of a value with a nonzero fraction below its last bit.
FRoundV(N, e, sticky, n) ==
  IF n = 0 THEN FZero
  ELSE IF n <= Precision THEN <<BShl(N, Precision - n), e - (Precision - n)>>
  ELSE LET drop == n - Precision
       IN  Only({ LET q  == qc[1]
                      c  == IF sticky /\ qc[2] = 0 THEN 1
                            ELSE IF sticky /\ qc[2] = 2 THEN 3 ELSE qc[2]
                      up == c = 3 \/ (c = 2 /\ q[1] % 2 = 1)
                  IN  Only({ IF BBitLen(q2) > Precision
                             THEN <<BShr(q2, 1)[1], e + drop + 1>>
                             ELSE <<q2, e + drop>> :
                             q2 \in {IF up THEN BAdd(q, <<1>>) ELSE q} }) :
                  qc \in {BShr(N, drop)} })

FRound(N, e, sticky) ==
  Only({ FRoundV(v[1], v[2], v[3], BBitLen(v[1])) : v \in {<<N, e, sticky>>} })

\* float(n) for an int n >= 0
FFromInt(n) == FRound(BFromInt(n), 0, FALSE)

\* x / k for a float x and an int 0 < k < Base
FDivIntV(x, k) ==
  IF x = FZero THEN FZero
  ELSE Only({ FRound(qr[1], x[2] - (LimbBits + 2), qr[2] # 0) :
              qr \in {BDivSmall(BShl(x[1], LimbBits + 2), k)} })

FDivInt(x, k) == Only({ FDivIntV(v[1], v[2]) : v \in {<<x, k>>} })

\* x * k for a float x and an int 0 <= k < Base
FMulIntV(x, k) ==
  IF x = FZero THEN FZero ELSE FRound(BMulSmall(x[1], k), x[2], FALSE)

FMulInt(x, k) == Only({ FMulIntV(v[1], v[2]) : v \in {<<x, k>>} })

\* The exact sum of two dyadic values <<N, e>> (not rounded)
DAddV(x, y) ==
  IF x[1] = <<>> THEN y
  ELSE IF y[1] = <<>> THEN x
  ELSE LET e == IF x[2] < y[2] THEN x[2] ELSE y[2]
       IN  <<BAdd(BShl(x[1], x[2] - e), BShl(y[1], y[2] - e)), e>>

DAdd(x, y) == Only({ DAddV(v[1], v[2]) : v \in {<<x, y>>} })

\* x + y
FAdd(x, y) == Only({ FRound(s[1], s[2], FALSE) : s \in {DAdd(x, y)} })

\* -1, 0, 1 as x < y, x = y, x > y, for dyadic values <<N, e>>
DCmpV(x, y) ==
  IF x[1] = <<>> THEN (IF y[1] = <<>> THEN 0 ELSE -1)
  ELSE IF y[1] = <<>> THEN 1
  ELSE LET e == IF x[2] < y[2] THEN x[2] ELSE y[2]
       IN  BCmp(BShl(x[1], x[2] - e), BShl(y[1], y[2] - e))

DCmp(x, y) == Only({ DCmpV(v[1], v[2]) : v \in {<<x, y>>} })

FGe(x, y) == DCmp(x, y) >= 0
FLt(x, y) == DCmp(x, y) < 0

(***************************************************************************)
(* Assignment (il, joereport) and Module (joseph).  A module has no type;  *)
(* it is carried here with type "Module".                                   *)
(***************************************************************************)
Assignment(name, score, weight, type) ==
  [name |-> name, score |-> score, weight |-> weight, type |-> type]

Module(name, score, weight) == Assignment(name, score, weight, "Module")

\* self.score * self.weight / 100  (int * int, then true division)
get_weighted_score(a) == FDivInt(FFromInt(a.score * a.weight), 100)

\* Course(name, total_sessions); joseph's Course(name) has no sessions (0 here)
Course(total_sessions) ==
  [assignments |-> <<>>, attendance |-> <<>>, total_sessions |-> total_sessions]

\* What a call gives back: a value, or the exception it raised
Return(v) == [raised |-> FALSE, val |-> v]
Raise(e) == [raised |-> TRUE, val |-> e]

RECURSIVE CountPresent(_)
CountPresent(att) ==
  IF att = <<>> THEN 0
  ELSE (IF att[1][2] = "Present" THEN 1 ELSE 0) + CountPresent(Tail(att))

\* calculate_attendance over the recorded entries
calculate_attendance_recorded(c) ==
  IF Len(c.attendance) = 0 THEN Raise("ZeroDivisionError")
  ELSE Return(FMulInt(FDivInt(FFromInt(CountPresent(c.attendance)),
                              Len(c.attendance)), 100))

calculate_attendance(c) ==
  IF c.total_sessions = 0 THEN Raise("ZeroDivisionError")
  ELSE Return(FMulInt(FDivInt(FFromInt(CountPresent(c.attendance)),
                              c.total_sessions), 100))

\* The loop of calculate_group_score from item i on, with the running totals
RECURSIVE GroupLoop(_, _, _, _, _)
GroupLoop(as, group_type, i, total_weight, total_weighted_score) ==
  IF i > Len(as) THEN <<total_weight, total_weighted_score>>
  ELSE IF as[i].type = group_type
       THEN Only({ GroupLoop(as, group_type, i + 1, t[1], t[2]) :
                   t \in {<<total_weight + as[i].weight,
                            FAdd(total_weighted_score, get_weighted_score(as[i]))>>} })
       ELSE GroupLoop(as, group_type, i + 1, total_weight, total_weighted_score)

\* calculate_group_score that takes an item of any type
RECURSIVE AnyLoop(_, _, _, _)
AnyLoop(as, i, total_weight, total_weighted_score) ==
  IF i > Len(as) THEN <<total_weight, total_weighted_score>>
  ELSE Only({ AnyLoop(as, i + 1, t[1], t[2]) :
              t \in {<<total_weight + as[i].weight,
                       FAdd(total_weighted_score, get_weighted_score(as[i]))>>} })

calculate_group_score_any(c, group_type) == AnyLoop(c.assignments, 1, 0, FZero)

calculate_group_score(c, group_type) ==
  GroupLoop(c.assignments, group_type, 1, 0, FZero)

FormativeThreshold == 30
SummativeThreshold == 20
ResubmissionThreshold == 50

\* score / weight * 100 if weight else 0
\* A group total that takes a group without weight as complete
GroupTotalFull(ws) ==
  IF ws[1] # 0 THEN FMulInt(FDivInt(ws[2], ws[1]), 100) ELSE FFromInt(100)

GroupTotalV(ws) ==
  IF ws[1] # 0 THEN FMulInt(FDivInt(ws[2], ws[1]), 100) ELSE FZero

GroupTotal(ws) == Only({ GroupTotalV(v) : v \in {ws} })

\* <<passed, formative_total, summative_total>>
\* Progression with strict thresholds
ProgressionStrict(formative_total, summative_total) ==
  LET pass_formative == ~FGe(FFromInt(FormativeThreshold), formative_total)
      pass_summative == ~FGe(FFromInt(SummativeThreshold), summative_total)
  IN  <<pass_formative /\ pass_summative, formative_total, summative_total>>

Progression(formative_total, summative_total) ==
  LET pass_formative == FGe(formative_total, FFromInt(FormativeThreshold))
      pass_summative == FGe(summative_total, FFromInt(SummativeThreshold))
  IN  <<pass_formative /\ pass_summative, formative_total, summative_total>>

check_progression(c) ==
  Only({ Progression(t[1], t[2]) :
         t \in {<<GroupTotal(calculate_group_score(c, "Formative")),
                  GroupTotal(calculate_group_score(c, "Summative"))>>} })

RECURSIVE Names(_)
Names(as) == IF as = <<>> THEN <<>> ELSE <<as[1].name>> \o Names(Tail(as))

\* IsResubmission with the threshold included
IsResubmissionInclusive(a) == a.score <= ResubmissionThreshold /\ a.type = "Formative"

IsResubmission(a) == a.score < ResubmissionThreshold /\ a.type = "Formative"

get_resubmission_candidates(c) == Names(SelectSeq(c.assignments, IsResubmission))

Reverse(s) == [i \in 1..Len(s) |-> s[Len(s) + 1 - i]]

\* x put into the sorted sequence s after every element whose score is <= x's
RECURSIVE InsertByScore(_, _)
InsertByScore(s, x) ==
  IF s = <<>> THEN <<x>>
  ELSE IF s[Len(s)].score <= x.score THEN Append(s, x)
  ELSE Append(InsertByScore(SubSeq(s, 1, Len(s) - 1), x), s[Len(s)])

\* A stable sort by score, smallest first
RECURSIVE StableSort(_)
StableSort(s) ==
  IF s = <<>> THEN <<>>
  ELSE InsertByScore(StableSort(SubSeq(s, 1, Len(s) - 1)), s[Len(s)])

\* sorted(seq, key=score, reverse=r): a new list; with reverse the list is
\* reversed, sorted stably and reversed again, so equal scores keep their order
\* sorted that sorts and then reverses
SortedThenReversed(s, reverse) ==
  IF reverse THEN Reverse(StableSort(s)) ELSE StableSort(s)

Sorted(s, reverse) ==
  IF reverse THEN Reverse(StableSort(Reverse(s))) ELSE StableSort(s)

generate_transcript(c, sort_order) ==
  Sorted(c.assignments, sort_order = "descending")

\* self.assignments after generate_transcript, had it sorted the list itself
AfterGenerateTranscriptInPlace(c, sort_order) ==
  [c EXCEPT !.assignments = Sorted(@, sort_order = "descending")]

\* self.assignments after generate_transcript: sorted() builds a new list and
\* leaves the one it is given as it was
AfterGenerateTranscript(c, sort_order) == c

(***************************************************************************)
(* joseph.py: Course of modules                                            *)
(***************************************************************************)
\* sum(module.get_weighted_score() for module in self.modules), from int 0
RECURSIVE SumWeighted(_, _, _)
SumWeighted(ms, i, acc) ==
  IF i > Len(ms) THEN acc
  ELSE Only({ SumWeighted(ms, i + 1, t) :
              t \in {FAdd(acc, get_weighted_score(ms[i]))} })

get_total_weighted_score(c) == SumWeighted(c.assignments, 1, FZero)

RECURSIVE SumScore(_)
SumScore(ms) == IF ms = <<>> THEN 0 ELSE ms[1].score + SumScore(Tail(ms))

RECURSIVE SumWeight(_)
SumWeight(ms) == IF ms = <<>> THEN 0 ELSE ms[1].weight + SumWeight(Tail(ms))

get_course_average(c) ==
  IF Len(c.assignments) = 0 THEN Raise("ZeroDivisionError")
  ELSE Return(FDivInt(FFromInt(SumScore(c.assignments)), Len(c.assignments)))

\* A retake test that also takes the score 50
IsRetakeInclusive(m) == m.score <= ResubmissionThreshold

IsRetake(m) == m.score < ResubmissionThreshold

check_retakes(c) == Names(SelectSeq(c.assignments, IsRetake))

(***************************************************************************)
(* Student                                                                 *)
(***************************************************************************)
\* calculate_gpa loop that starts its totals again at every course
RECURSIVE GpaLoopLast(_, _, _, _, _)
GpaLoopLast(cs, ci, ai, total_weighted_score, total_weight) ==
  IF ci > Len(cs) THEN <<total_weighted_score, total_weight>>
  ELSE IF ai > Len(cs[ci].assignments)
       THEN (IF ci < Len(cs) THEN GpaLoopLast(cs, ci + 1, 1, FZero, 0)
             ELSE <<total_weighted_score, total_weight>>)
       ELSE LET a == cs[ci].assignments[ai]
            IN  Only({ GpaLoopLast(cs, ci, ai + 1, t[1], t[2]) :
                       t \in {<<FAdd(total_weighted_score, get_weighted_score(a)),
                                total_weight + a.weight>>} })

\* The nested loop of calculate_gpa (il, joereport) from course ci, item ai on:
\* <<total_weighted_score, total_weight>>
RECURSIVE GpaLoop(_, _, _, _, _)
GpaLoop(cs, ci, ai, total_weighted_score, total_weight) ==
  IF ci > Len(cs) THEN <<total_weighted_score, total_weight>>
  ELSE IF ai > Len(cs[ci].assignments)
       THEN GpaLoop(cs, ci + 1, 1, total_weighted_score, total_weight)
       ELSE LET a == cs[ci].assignments[ai]
            IN  Only({ GpaLoop(cs, ci, ai + 1, t[1], t[2]) :
                       t \in {<<FAdd(total_weighted_score, get_weighted_score(a)),
                                total_weight + a.weight>>} })

\* joseph: sum(course.get_total_weighted_score() for course in self.courses)
RECURSIVE SumCourses(_, _, _)
SumCourses(cs, i, acc) ==
  IF i > Len(cs) THEN acc
  ELSE Only({ SumCourses(cs, i + 1, t) :
              t \in {FAdd(acc, get_total_weighted_score(cs[i]))} })

RECURSIVE SumCourseWeights(_)
SumCourseWeights(cs) ==
  IF cs = <<>> THEN 0
  ELSE SumWeight(cs[1].assignments) + SumCourseWeights(Tail(cs))

\* il, joereport: guarded;  joseph: the division is not guarded
calculate_gpa(v, cs) ==
  IF v = "joseph"
  THEN LET total_weighted_score == SumCourses(cs, 1, FZero)
           total_weight         == SumCourseWeights(cs)
       IN  IF total_weight = 0 THEN Raise("ZeroDivisionError")
           ELSE Return(FMulInt(FDivInt(total_weighted_score, total_weight), 100))
  ELSE Only({ Return(IF t[2] # 0 THEN FMulInt(FDivInt(t[1], t[2]), 100) ELSE FZero) :
              t \in {GpaLoop(cs, 1, 1, FZero, 0)} })

\* f"{x:.2f}": the decimal with two places nearest to x (ties to even), as a
\* number of hundredths
Fmt2V(x) ==
  IF x = FZero THEN 0
  ELSE IF x[2] >= 0 THEN BToInt(BShl(BMulSmall(x[1], 100), x[2]))
  ELSE Only({ LET q == BToInt(qc[1])
              IN  IF qc[2] = 3 \/ (qc[2] = 2 /\ q % 2 = 1) THEN q + 1 ELSE q :
              qc \in {BShr(BMulSmall(x[1], 100), 0 - x[2])} })

Fmt2(x) == Only({ Fmt2V(v) : v \in {x} })

\* One row of a course's "Transcript Breakdown" table
TranscriptRow(a) == <<a.name, a.type, a.score, a.weight>>

\* One row of the "Detailed Report" table of course number ci
TableRow(ci, a) == <<ci, a.name, a.score, a.weight, Fmt2(get_weighted_score(a))>>

RECURSIVE TableData(_, _)
TableData(cs, ci) ==
  IF ci > Len(cs) THEN <<>>
  ELSE [k \in 1..Len(cs[ci].assignments) |-> TableRow(ci, cs[ci].assignments[k])]
       \o TableData(cs, ci + 1)

\* The attendance line of the report: il warns unless exactly 100, joereport
\* warns below 75
AttendanceLine(v, attendance_percentage) ==
  IF v = "il"
  THEN (IF attendance_percentage = FFromInt(100)
        THEN "Attendance is in good standing (100%)."
        ELSE "Warning: Attendance is below 100%.")
  ELSE (IF FLt(attendance_percentage, FFromInt(75))
        THEN "Warning: Attendance is below 75%."
        ELSE "Attendance is satisfactory.")

\* The part of the report generate_report (il, joereport) writes for one course
CourseSectionV(v, c, p, att, tr) ==
      [formative     |-> Fmt2(p[2]),
       summative     |-> Fmt2(p[3]),
       passed        |-> IF p[1] THEN "Yes" ELSE "No",
       resubmissions |-> get_resubmission_candidates(c),
       attendance    |-> Fmt2(att),
       standing      |-> AttendanceLine(v, att),
       transcript    |-> [k \in 1..Len(tr) |-> TranscriptRow(tr[k])]]

CourseSection(v, c, sort_order) ==
  Only({ CourseSectionV(v, c, t[1], t[2], t[3]) :
         t \in {<<check_progression(c), calculate_attendance(c).val,
                  generate_transcript(c, sort_order)>>} })

\* joseph: the rows and lines generate_report writes for course number ci
RECURSIVE ModuleTable(_, _)
ModuleTable(cs, ci) ==
  IF ci > Len(cs) THEN <<>>
  ELSE LET c == cs[ci]
       IN  [k \in 1..Len(c.assignments) |-> TableRow(ci, c.assignments[k])]
           \o << <<ci, "Course Average", Fmt2(get_course_average(c).val)>>,
                 <<ci, "Retakes Required", check_retakes(c)>> >>
           \o ModuleTable(cs, ci + 1)

ModuleSection(c) ==
  [average |-> Fmt2(get_course_average(c).val), retakes |-> check_retakes(c)]

\* The courses after generate_report: its loop (il, joereport) calls
\* generate_transcript on every course it reaches, and stops at the first course
\* whose calculate_attendance raises
AfterGenerateReport(v, cs, sort_order) ==
  IF v = "joseph" THEN cs
  ELSE [i \in 1..Len(cs) |->
          IF \E k \in 1..i : calculate_attendance(cs[k]).raised THEN cs[i]
          ELSE AfterGenerateTranscript(cs[i], sort_order)]

\* The report, as the values it prints.  A course whose calculate_attendance
\* (il, joereport) or get_course_average (joseph) raises ends the call, and so
\* does joseph's calculate_gpa.
generate_report(v, cs, sort_order) ==
  IF v = "joseph"
  THEN IF \E i \in 1..Len(cs) : get_course_average(cs[i]).raised
          THEN Raise("ZeroDivisionError")
       ELSE IF calculate_gpa(v, cs).raised THEN Raise("ZeroDivisionError")
       ELSE Return([sections |-> [i \in 1..Len(cs) |-> ModuleSection(cs[i])],
                    gpa      |-> Fmt2(calculate_gpa(v, cs).val),
                    table    |-> ModuleTable(cs, 1)])
  ELSE IF \E i \in 1..Len(cs) : calculate_attendance(cs[i]).raised
          THEN Raise("ZeroDivisionError")
       ELSE LET after == AfterGenerateReport(v, cs, sort_order)
                overall_avg_score ==
                  Only({ IF t[2] # 0 THEN FMulInt(FDivInt(t[1], t[2]), 100) ELSE FZero :
                         t \in {GpaLoop(after, 1, 1, FZero, 0)} })
            IN  Return([sections |-> [i \in 1..Len(cs) |->
                                        CourseSection(v, cs[i], sort_order)],
                        gpa      |-> Fmt2(calculate_gpa(v, after).val),
                        overall  |-> IF v = "il" THEN <<Fmt2(overall_avg_score)>>
                                     ELSE <<>>,
                        table    |-> TableData(after, 1)])

\* The steps of the try block of send_report_to_parent, in order
SmtpSteps == <<"connect", "starttls", "login", "sendmail", "quit">>

\* send_report_to_parent where step number failing of the try block raises
\* (0: none does): <<what the call gives back, the line it prints>>.  The
\* report is generated before the try block.
\* send_report_to_parent whose try block starts after the connection is made
send_report_to_parent_connect_outside(v, cs, sort_order, failing, printed_before) ==
  LET report == generate_report(v, cs, sort_order)
  IN  IF report.raised THEN <<report, printed_before>>
      ELSE IF failing = 0 THEN <<Return("None"), "Report sent to parent">>
      ELSE IF SmtpSteps[failing] = "connect"
           THEN <<Raise("OSError"), printed_before>>
      ELSE <<Return("None"), "Failed to send email">>

send_report_to_parent(v, cs, sort_order, failing, printed_before) ==
  LET report == generate_report(v, cs, sort_order)
  IN  IF report.raised THEN <<report, printed_before>>
      ELSE IF failing = 0 THEN <<Return("None"), "Report sent to parent">>
      ELSE <<Return("None"), "Failed to send email">>

(***************************************************************************)
(* joseph.py: the tracking server.  A path is carried as path.split("/"):  *)
(* "/confirm_view/a" is <<"", "confirm_view", "a">>, and a key of the      *)
(* confirmation store likewise: "a" is <<"a">>.                            *)
(***************************************************************************)
\* self.path.startswith("/" + word + "/")
StartsWith(path, word) == Len(path) >= 3 /\ path[1] = "" /\ path[2] = word

\* do_GET: <<status sent, body written, confirmation_store afterwards>>
do_GET(path, store, time) ==
  IF StartsWith(path, "track_open")
  THEN <<204, "", store>>
  ELSE IF StartsWith(path, "confirm_view")
  THEN LET email_id == <<path[Len(path)]>>
       IN  <<200, "Thank you for confirming that you've seen the report!",
             [k \in DOMAIN store \cup {email_id} |->
                IF k = email_id THEN time ELSE store[k]]>>
  ELSE <<404, "Page not found.", store>>

\* A server that hands every request to a thread of its own
ServerFreeThreading(active) == TRUE

\* run_server: HTTPServer takes the next connection only after the handler
\* of the last one has returned (serve_forever handles requests in its loop)
ServerFree(active) == active = <<>>

(***************************************************************************)
(* State                                                                   *)
(*   variant             which of the three programs runs                  *)
(*   courses             student.courses                                   *)
(*   confirmation_store  joseph's module-level dictionary                  *)
(*   now                 the clock time.time() reads                       *)
(*   ret                 the last call: its name, arguments and outcome    *)
(*   printed             the last line send_report_to_parent printed       *)
(*   backlog             the requests that wait to be accepted by the      *)
(*                       server, oldest first                              *)
(*   handlers            the RequestHandlers inside do_GET: the path of    *)
(*                       each and the line it has reached                  *)
(***************************************************************************)
VARIABLES variant, courses, confirmation_store, now, ret, printed,
          backlog, handlers

vars == <<variant, courses, confirmation_store, now, ret, printed,
          backlog, handlers>>

\* Bounds of the model
MaxCourses == 2
MaxItems == 3
MaxMarks == 3
MaxReportItems == 2
MaxReportMarks == 2
MaxClock == 2
MaxRequests == 3

NoCall == [op |-> "none", arg |-> <<>>, raised |-> FALSE, val |-> <<>>]
Called(op, arg, r) == [op |-> op, arg |-> arg, raised |-> r.raised, val |-> r.val]

RECURSIVE TotalItems(_)
TotalItems(cs) ==
  IF cs = <<>> THEN 0 ELSE Len(cs[1].assignments) + TotalItems(Tail(cs))

RECURSIVE TotalMarks(_)
TotalMarks(cs) ==
  IF cs = <<>> THEN 0 ELSE Len(cs[1].attendance) + TotalMarks(Tail(cs))

InitWith(variants) ==
  /\ variant \in variants
  /\ courses = <<>>
  /\ confirmation_store = <<>>
  /\ now = 0
  /\ ret = NoCall
  /\ printed = ""
  /\ backlog = <<>>
  /\ handlers = <<>>

\* student.add_course(Course(name, total_sessions))
add_course(total_sessions) ==
  /\ courses' = Append(courses, Course(total_sessions))
  /\ ret' = NoCall
  /\ UNCHANGED <<backlog, handlers, variant, confirmation_store, now, printed>>

\* course.add_assignment(a) (il, joereport), course.add_module(a) (joseph)
add_assignment(i, a, max) ==
  /\ TotalItems(courses) < max
  /\ courses' = [courses EXCEPT ![i].assignments = Append(@, a)]
  /\ ret' = NoCall
  /\ UNCHANGED <<backlog, handlers, variant, confirmation_store, now, printed>>

\* course.mark_attendance(date, status)
mark_attendance(i, date, status, max) ==
  /\ variant # "joseph"
  /\ TotalMarks(courses) < max
  /\ courses' = [courses EXCEPT ![i].attendance = Append(@, <<date, status>>)]
  /\ ret' = NoCall
  /\ UNCHANGED <<backlog, handlers, variant, confirmation_store, now, printed>>

\* A call that only reads the student: its outcome is recorded
Query(op, arg, r) ==
  /\ ret' \in {Called(op, arg, v) : v \in {r}}
  /\ UNCHANGED <<backlog, handlers, variant, courses, confirmation_store, now, printed>>

CallCalculateAttendance(i) ==
  variant # "joseph" /\ Query("calculate_attendance", <<i>>, calculate_attendance(courses[i]))

CallCalculateGroupScore(i, group_type) ==
  variant # "joseph" /\ Query("calculate_group_score", <<i, group_type>>,
                               Return(calculate_group_score(courses[i], group_type)))

CallCheckProgression(i) ==
  variant # "joseph" /\ Query("check_progression", <<i>>, Return(check_progression(courses[i])))

CallGetResubmissionCandidates(i) ==
  variant # "joseph" /\ Query("get_resubmission_candidates", <<i>>,
                               Return(get_resubmission_candidates(courses[i])))

CallGenerateTranscript(i, sort_order) ==
  /\ variant # "joseph"
  /\ ret' \in {Called("generate_transcript", <<i, sort_order>>, Return(v)) :
                v \in {generate_transcript(courses[i], sort_order)}}
  /\ courses' = [courses EXCEPT ![i] = AfterGenerateTranscript(@, sort_order)]
  /\ UNCHANGED <<backlog, handlers, variant, confirmation_store, now, printed>>

CallGetCourseAverage(i) ==
  variant = "joseph" /\ Query("get_course_average", <<i>>, get_course_average(courses[i]))

CallCheckRetakes(i) ==
  variant = "joseph" /\ Query("check_retakes", <<i>>, Return(check_retakes(courses[i])))

CallCalculateGpa == Query("calculate_gpa", <<>>, calculate_gpa(variant, courses))

CallGenerateReport(sort_order) ==
  /\ ret' \in {Called("generate_report", <<sort_order>>, v) :
                v \in {generate_report(variant, courses, sort_order)}}
  /\ courses' = AfterGenerateReport(variant, courses, sort_order)
  /\ UNCHANGED <<backlog, handlers, variant, confirmation_store, now, printed>>

\* send_report_to_parent, with the step of the try block that fails (0: none)
CallSendReportToParent(sort_order, failing) ==
  \E r \in {send_report_to_parent(variant, courses, sort_order, failing, printed)} :
      /\ ret' = Called("send_report_to_parent", <<sort_order, failing>>, r[1])
      /\ printed' = r[2]
      /\ courses' = AfterGenerateReport(variant, courses, sort_order)
      /\ UNCHANGED <<backlog, handlers, variant, confirmation_store, now>>

\* The server answers one GET request
HandleGet(path) ==
  \E r \in {do_GET(path, confirmation_store, now)} :
      /\ variant = "joseph"
      /\ confirmation_store' = r[3]
      /\ ret' = Called("do_GET", path, Return(<<r[1], r[2]>>))
      /\ UNCHANGED <<backlog, handlers, variant, courses, now, printed>>

\* Time passes
Tick ==
  /\ now < MaxClock
  /\ now' = now + 1
  /\ UNCHANGED <<backlog, handlers, variant, courses, confirmation_store, ret, printed>>

\* A client sends a GET request: its connection waits to be accepted
Connect(path) ==
  /\ variant = "joseph"
  /\ Len(backlog) + Len(handlers) < MaxRequests
  /\ backlog' = Append(backlog, path)
  /\ UNCHANGED <<handlers, variant, courses, confirmation_store, now, ret, printed>>

\* serve_forever accepts the oldest connection and enters do_GET for it
process_request ==
  /\ backlog # <<>>
  /\ ServerFree(handlers)
  /\ handlers' = Append(handlers, [path |-> Head(backlog), line |-> "if"])
  /\ backlog' = Tail(backlog)
  /\ UNCHANGED <<variant, courses, confirmation_store, now, ret, printed>>

\* do_GET, the tests of the path: on to the write or straight to the answer
Route(h) ==
  /\ handlers[h].line = "if"
  /\ handlers' = [handlers EXCEPT ![h].line =
                     IF StartsWith(handlers[h].path, "track_open") THEN "send_response"
                     ELSE IF StartsWith(handlers[h].path, "confirm_view") THEN "store"
                     ELSE "send_response"]
  /\ UNCHANGED <<backlog, variant, courses, confirmation_store, now, ret, printed>>

\* do_GET, confirmation_store[email_id] = time.time()
Store(h) ==
  /\ handlers[h].line = "store"
  /\ confirmation_store' = do_GET(handlers[h].path, confirmation_store, now)[3]
  /\ handlers' = [handlers EXCEPT ![h].line = "send_response"]
  /\ UNCHANGED <<backlog, variant, courses, now, ret, printed>>

\* do_GET, the answer is sent and the handler returns
Respond(h) ==
  /\ handlers[h].line = "send_response"
  /\ \E r \in {do_GET(handlers[h].path, confirmation_store, now)} :
        ret' = Called("do_GET", handlers[h].path, Return(<<r[1], r[2]>>))
  /\ handlers' = [k \in 1..(Len(handlers) - 1) |->
                     IF k < h THEN handlers[k] ELSE handlers[k + 1]]
  /\ UNCHANGED <<backlog, variant, courses, confirmation_store, now, printed>>

(***************************************************************************)
(* The inputs the specifications draw from                                 *)
(***************************************************************************)
Orders == {"ascending", "descending"}
GroupTypes == {"Formative", "Summative", "Quiz"}
Dates == {"Sep 16"}
Statuses == {"Present", "Absent", "Late"}
Sessions == 0..3

\* An item as the variant holds it: joseph's modules have no type
ItemOf(v, a) == IF v = "joseph" THEN Module(a.name, a.score, a.weight) ELSE a

ProgressionItems ==
  { Assignment("A", 29, 9, "Formative"), Assignment("B", 30, 10, "Formative"),
    Assignment("C", 31, 9, "Formative"), Assignment("Z", 50, 0, "Formative"),
    Assignment("D", 20, 10, "Summative"), Assignment("E", 19, 10, "Summative") }

TranscriptItems ==
  { Assignment("X", 49, 10, "Formative"), Assignment("Y", 50, 10, "Formative"),
    Assignment("X", 90, 10, "Formative"), Assignment("T", 49, 10, "Summative"),
    Assignment("S", 10, 10, "Summative") }

GpaItems ==
  { Assignment("Assignment 1", 85, 15, "Formative"),
    Assignment("Midterm", 72, 20, "Summative"),
    Assignment("Final Exam", 90, 20, "Summative"),
    Assignment("Quiz", 1, 10, "Formative"),
    Assignment("Bonus", 50, 0, "Formative") }

ReportItems ==
  { Assignment("X", 49, 10, "Formative"), Assignment("Y", 50, 10, "Summative") }

SendItems == { Assignment("X", 49, 10, "Formative") }

Paths ==
  { <<"", "track_open", "a">>, <<"", "confirm_view", "a">>,
    <<"", "confirm_view", "b">>, <<"", "confirm_view", "a", "b">>,
    <<"", "track_open">>, <<"", "other", "a">>, <<"", "">> }

(***************************************************************************)
(* SpecProgression: one course of il or joereport, its group scores and    *)
(* its progression                                                         *)
(***************************************************************************)
InitCourse == InitWith({"il", "joereport"})

NextProgression ==
  \/ courses = <<>> /\ add_course(1)
  \/ \E i \in 1..Len(courses), a \in ProgressionItems : add_assignment(i, a, MaxItems)
  \/ \E i \in 1..Len(courses), g \in GroupTypes : CallCalculateGroupScore(i, g)
  \/ \E i \in 1..Len(courses) : CallCheckProgression(i)

SpecProgression == InitCourse /\ [][NextProgression]_vars

(***************************************************************************)
(* SpecTranscript: one course, its resubmission candidates and transcript  *)
(***************************************************************************)
NextTranscript ==
  \/ courses = <<>> /\ add_course(1)
  \/ \E i \in 1..Len(courses), a \in TranscriptItems : add_assignment(i, a, MaxItems)
  \/ \E i \in 1..Len(courses) : CallGetResubmissionCandidates(i)
  \/ \E i \in 1..Len(courses), o \in Orders : CallGenerateTranscript(i, o)

SpecTranscript == InitCourse /\ [][NextTranscript]_vars

(***************************************************************************)
(* SpecAttendance: one course and its attendance log                       *)
(***************************************************************************)
NextAttendance ==
  \/ courses = <<>> /\ \E n \in Sessions : add_course(n)
  \/ \E i \in 1..Len(courses), d \in Dates, s \in Statuses :
        mark_attendance(i, d, s, MaxMarks)
  \/ \E i \in 1..Len(courses) : CallCalculateAttendance(i)

SpecAttendance == InitCourse /\ [][NextAttendance]_vars

(***************************************************************************)
(* SpecGpa: a student of any variant, the courses and items, the GPA       *)
(***************************************************************************)
InitStudent == InitWith({"il", "joereport", "joseph"})

NextGpa ==
  \/ Len(courses) < MaxCourses /\ add_course(IF variant = "joseph" THEN 0 ELSE 1)
  \/ \E i \in 1..Len(courses), a \in GpaItems :
        add_assignment(i, ItemOf(variant, a), MaxItems)
  \/ CallCalculateGpa

SpecGpa == InitStudent /\ [][NextGpa]_vars

(***************************************************************************)
(* Spec: a student of any variant and the report                           *)
(***************************************************************************)
Next ==
  \/ Len(courses) < MaxCourses
       /\ \E n \in 0..1 : (variant = "joseph" => n = 0) /\ add_course(n)
  \/ \E i \in 1..Len(courses), a \in ReportItems :
        add_assignment(i, ItemOf(variant, a), MaxReportItems)
  \/ \E i \in 1..Len(courses), d \in Dates :
        mark_attendance(i, d, "Present", MaxReportMarks)
  \/ \E i \in 1..Len(courses) : CallCalculateAttendance(i)
  \/ \E i \in 1..Len(courses) : CallGetCourseAverage(i)
  \/ CallCalculateGpa
  \/ \E o \in Orders : CallGenerateReport(o)

Spec == InitStudent /\ [][Next]_vars

(***************************************************************************)
(* SpecSend: a student of any variant, the report and its sending          *)
(***************************************************************************)
NextSend ==
  \/ Len(courses) < MaxCourses
       /\ \E n \in 0..1 : (variant = "joseph" => n = 0) /\ add_course(n)
  \/ \E i \in 1..Len(courses), a \in SendItems :
        add_assignment(i, ItemOf(variant, a), MaxReportItems)
  \/ \E o \in Orders : CallGenerateReport(o)
  \/ \E o \in Orders, f \in 0..Len(SmtpSteps) : CallSendReportToParent(o, f)

SpecSend == InitStudent /\ [][NextSend]_vars

(***************************************************************************)
(* SpecServer: the tracking server of joseph                               *)
(***************************************************************************)
NextServer ==
  \/ \E p \in Paths : HandleGet(p)
  \/ Tick

SpecServer == InitWith({"joseph"}) /\ [][NextServer]_vars

(***************************************************************************)
(* SpecRequests: the tracking server of joseph with requests that arrive   *)
(* while others are handled, do_GET taken line by line                     *)
(***************************************************************************)
RequestPaths ==
  { <<"", "confirm_view", "a">>, <<"", "confirm_view", "b">>,
    <<"", "track_open", "a">>, <<"", "other", "a">> }

NextRequests ==
  \/ \E p \in RequestPaths : Connect(p)
  \/ process_request
  \/ \E h \in 1..Len(handlers) : Route(h)
  \/ \E h \in 1..Len(handlers) : Store(h)
  \/ \E h \in 1..Len(handlers) : Respond(h)
  \/ Tick

SpecRequests == InitWith({"joseph"}) /\ [][NextRequests]_vars

(***************************************************************************)
(* SpecQueries: a student of il or joereport and every operation that only *)
(* asks                                                                    *)
(***************************************************************************)
NextQueries ==
  \/ Len(courses) < MaxCourses /\ add_course(1)
  \/ \E i \in 1..Len(courses), a \in ReportItems :
        add_assignment(i, a, MaxReportItems)
  \/ \E i \in 1..Len(courses), d \in Dates :
        mark_attendance(i, d, "Present", MaxReportMarks)
  \/ \E i \in 1..Len(courses), g \in GroupTypes : CallCalculateGroupScore(i, g)
  \/ \E i \in 1..Len(courses) : CallCheckProgression(i)
  \/ \E i \in 1..Len(courses) : CallGetResubmissionCandidates(i)
  \/ \E i \in 1..Len(courses) : CallCalculateAttendance(i)
  \/ \E i \in 1..Len(courses), o \in Orders : CallGenerateTranscript(i, o)
  \/ CallCalculateGpa
  \/ \E o \in Orders : CallGenerateReport(o)

SpecQueries == InitCourse /\ [][NextQueries]_vars

(***************************************************************************)
(* SpecRetakes: one course of joseph, its modules and its retakes          *)
(***************************************************************************)
RetakeItems ==
  { Module("X", 49, 10), Module("Y", 50, 10), Module("X", 10, 20),
    Module("W", 90, 0) }

NextRetakes ==
  \/ courses = <<>> /\ add_course(0)
  \/ \E i \in 1..Len(courses), a \in RetakeItems : add_assignment(i, a, MaxItems)
  \/ \E i \in 1..Len(courses) : CallCheckRetakes(i)

SpecRetakes == InitWith({"joseph"}) /\ [][NextRetakes]_vars

(***************************************************************************)
(* Helpers of the properties                                               *)
(***************************************************************************)
\* The exact value of the int n, and 2^-30 (below 1e-9), as dyadic values
DInt(n) == <<BFromInt(n), 0>>
Eps == <<BFromInt(1), 0 - 30>>
DTimes(x, k) == <<BMulSmall(x[1], k), x[2]>>

\* |x - y| <= k * 2^-30, exactly
CloseBy(x, y, k) ==
  /\ DCmp(x, DAdd(y, DTimes(Eps, k))) <= 0
  /\ DCmp(y, DAdd(x, DTimes(Eps, k))) <= 0

Perms(n) == { f \in [1..n -> 1..n] : \A j, k \in 1..n : j # k => f[j] # f[k] }

\* Course c with its items in the order f
Permuted(c, f) ==
  [c EXCEPT !.assignments = [k \in 1..Len(c.assignments) |-> c.assignments[f[k]]]]

\* The positions of the items of c whose type is g
Matching(c, g) == { k \in 1..Len(c.assignments) : c.assignments[k].type = g }

RECURSIVE SumWeightAt(_, _)
SumWeightAt(as, S) ==
  IF S = {} THEN 0
  ELSE LET k == CHOOSE k \in S : TRUE
       IN  as[k].weight + SumWeightAt(as, S \ {k})

\* The sum of score * weight over the positions S (100 times the weighted scores)
RECURSIVE SumProductAt(_, _)
SumProductAt(as, S) ==
  IF S = {} THEN 0
  ELSE LET k == CHOOSE k \in S : TRUE
       IN  as[k].score * as[k].weight + SumProductAt(as, S \ {k})

\* The course a call recorded in ret was made on
RetCourse == courses[ret.arg[1]]

(***************************************************************************)
(* C1: check_progression returns passed = True exactly when the formative  *)
(* percentage is at least 30 and the summative percentage at least 20,     *)
(* each percentage being group weighted score / group weight * 100, or 0   *)
(* when the group weight is 0; both thresholds are inclusive.              *)
(***************************************************************************)
C1Pct(ws) == IF ws[1] = 0 THEN FZero ELSE FMulInt(FDivInt(ws[2], ws[1]), 100)

C1Theorem ==
  ret.op = "check_progression" =>
    LET f == C1Pct(calculate_group_score(RetCourse, "Formative"))
        s == C1Pct(calculate_group_score(RetCourse, "Summative"))
    IN  /\ ret.val[2] = f
        /\ ret.val[3] = s
        /\ ret.val[1] = (DCmp(f, DInt(30)) >= 0 /\ DCmp(s, DInt(20)) >= 0)

\* Both percentages exactly at their thresholds, and the course passes
C1Witness ==
  /\ ret.op = "check_progression"
  /\ DCmp(ret.val[2], DInt(30)) = 0
  /\ DCmp(ret.val[3], DInt(20)) = 0
  /\ ret.val[1] = TRUE

RECURSIVE AllItems(_)
AllItems(cs) == IF cs = <<>> THEN <<>> ELSE cs[1].assignments \o AllItems(Tail(cs))

\* The student's items, in the same order, all in one course
Merged(cs) == << [Course(1) EXCEPT !.assignments = AllItems(cs)] >>

AllPositions(cs) == 1..Len(AllItems(cs))
TotalWeight(cs) == SumWeightAt(AllItems(cs), AllPositions(cs))

(***************************************************************************)
(* C2 as claimed: with a total weight above 0, calculate_gpa is the sum of *)
(* every item's score*weight/100 divided by the sum of every item's        *)
(* weight, times 100, whatever the partition of the items into courses;    *)
(* one course (85,15),(72,20),(90,20) gives 82.09.                         *)
(***************************************************************************)
C2Example ==
  << [Course(1) EXCEPT !.assignments =
        << Assignment("Assignment 1", 85, 15, "Formative"),
           Assignment("Midterm", 72, 20, "Summative"),
           Assignment("Final Exam", 90, 20, "Summative") >>] >>

C3Claimed ==
  (ret.op = "calculate_gpa" /\ TotalWeight(courses) = 0) =>
    ~ret.raised /\ ret.val = FZero

(***************************************************************************)
(* C4: every ratio with a zero denominator returns 0 instead of failing:   *)
(* calculate_attendance on a course with total_sessions 0 returns 0,       *)
(* get_course_average on a course without modules returns 0, and           *)
(* generate_report on a student with such a course completes.              *)
(***************************************************************************)
C4Claimed ==
  /\ (ret.op = "calculate_attendance" /\ RetCourse.total_sessions = 0) =>
        ~ret.raised /\ ret.val = FZero
  /\ (ret.op = "get_course_average" /\ RetCourse.assignments = <<>>) =>
        ~ret.raised /\ ret.val = FZero
  /\ ret.op = "generate_report" => ~ret.raised

(***************************************************************************)
(* C5: get_resubmission_candidates returns exactly the names of the items  *)
(* whose type is Formative and whose score is below 50, in insertion       *)
(* order: Formative 49 is in, Formative 50 is out, Summative is out.       *)
(***************************************************************************)
C5Candidates(c) ==
  { k \in 1..Len(c.assignments) :
      c.assignments[k].type = "Formative" /\ c.assignments[k].score < 50 }

C5Theorem ==
  ret.op = "get_resubmission_candidates" =>
    LET as == RetCourse.assignments
        S  == C5Candidates(RetCourse)
    IN  /\ Len(ret.val) = Cardinality(S)
        /\ \E f \in [1..Len(ret.val) -> S] :
              /\ \A j, k \in 1..Len(ret.val) : j < k => f[j] < f[k]
              /\ \A j \in 1..Len(ret.val) : ret.val[j] = as[f[j]].name

\* A Formative 50, a Summative 10 and a Formative 49: only the last is named
C5Witness ==
  /\ ret.op = "get_resubmission_candidates"
  /\ RetCourse.assignments = << Assignment("Y", 50, 10, "Formative"),
                                Assignment("S", 10, 10, "Summative"),
                                Assignment("X", 49, 10, "Formative") >>
  /\ ret.val = <<"X">>

(***************************************************************************)
(* C6: generate_transcript(order) returns a permutation of the course's    *)
(* items, ordered by score per order (non-decreasing when ascending,       *)
(* non-increasing when descending), in which items of equal score keep     *)
(* their insertion order, ascending and descending alike.                  *)
(***************************************************************************)
C6Theorem ==
  ret.op = "generate_transcript" =>
    LET as == RetCourse.assignments
        n  == Len(as)
    IN  /\ Len(ret.val) = n
        /\ \E f \in Perms(n) :
              /\ \A k \in 1..n : ret.val[k] = as[f[k]]
              /\ \A j, k \in 1..n : j < k =>
                    /\ ret.arg[2] = "ascending"  => as[f[j]].score <= as[f[k]].score
                    /\ ret.arg[2] = "descending" => as[f[j]].score >= as[f[k]].score
                    /\ as[f[j]].score = as[f[k]].score => f[j] < f[k]

\* A descending transcript with a tie: T and X, both 49, stay in insertion order
C6Witness ==
  /\ ret.op = "generate_transcript"
  /\ ret.arg[2] = "descending"
  /\ RetCourse.assignments = << Assignment("T", 49, 10, "Summative"),
                                Assignment("X", 49, 10, "Formative"),
                                Assignment("Y", 50, 10, "Formative") >>
  /\ Names(ret.val) = <<"Y", "T", "X">>

(***************************************************************************)
(* C8: with total_sessions > 0, calculate_attendance is the number of      *)
(* entries whose status is Present, divided by total_sessions, times 100   *)
(* (not divided by the number of entries): other statuses add nothing, and *)
(* more Present entries than total_sessions give more than 100.            *)
(***************************************************************************)
C8Present(c) == { k \in 1..Len(c.attendance) : c.attendance[k][2] = "Present" }

C8Theorem ==
  (ret.op = "calculate_attendance" /\ RetCourse.total_sessions > 0) =>
    LET n == RetCourse.total_sessions
        p == Cardinality(C8Present(RetCourse))
    IN  /\ ~ret.raised
        /\ ret.val = FMulInt(FDivInt(FFromInt(p), n), 100)
        /\ CloseBy(DTimes(ret.val, n), DInt(100 * p), n)
        /\ p > n => DCmp(ret.val, DInt(100)) > 0

\* One session, two Present entries and one Absent: 200, not 66.67
C8Witness ==
  /\ ret.op = "calculate_attendance"
  /\ RetCourse.total_sessions = 1
  /\ Len(RetCourse.attendance) = 3
  /\ Cardinality(C8Present(RetCourse)) = 2
  /\ ~ret.raised
  /\ DCmp(ret.val, DInt(200)) = 0

(***************************************************************************)
(* C9: for every GET request, a path /track_open/{id} is answered 204 and  *)
(* leaves the confirmation map unchanged; a path /confirm_view/{id} is     *)
(* answered 200 and afterwards the map holds a timestamp under {id}, every *)
(* other key unchanged; every other path is answered 404 and leaves the    *)
(* map unchanged.  {id} is what follows the prefix: one segment, or, read  *)
(* generously, all the segments that follow; a path the two readings class *)
(* differently may be answered as either reading says.                     *)
(***************************************************************************)
C9Unchanged == confirmation_store' = confirmation_store

\* The map afterwards holds the time of the request under key, the rest as before
C9Recorded(key) ==
  /\ DOMAIN confirmation_store' = DOMAIN confirmation_store \cup {key}
  /\ confirmation_store'[key] = now
  /\ \A k \in DOMAIN confirmation_store : k # key =>
        confirmation_store'[k] = confirmation_store[k]

C9Status == ret'.val[1]

C9OneSegment(path, word) == Len(path) = 3 /\ path[1] = "" /\ path[2] = word /\ path[3] # ""
C9Segments(path, word) == Len(path) > 3 /\ path[1] = "" /\ path[2] = word

C9Answer(path) ==
  IF C9OneSegment(path, "track_open") THEN C9Status = 204 /\ C9Unchanged
  ELSE IF C9OneSegment(path, "confirm_view")
       THEN C9Status = 200 /\ C9Recorded(<<path[3]>>)
  ELSE IF C9Segments(path, "track_open")
       THEN (C9Status = 204 \/ C9Status = 404) /\ C9Unchanged
  ELSE IF C9Segments(path, "confirm_view")
       THEN \/ C9Status = 200 /\ C9Recorded(SubSeq(path, 3, Len(path)))
            \/ C9Status = 404 /\ C9Unchanged
  ELSE C9Status = 404 /\ C9Unchanged

\* Every step of the server that is not a tick of the clock answers a request
C9Claimed == [][now' = now => C9Answer(ret'.arg)]_vars

(***************************************************************************)
(* C10: in send_report_to_parent a failure of any SMTP step (connect,      *)
(* starttls, login, sendmail, quit) is caught and logged and does not      *)
(* reach the caller; the student's courses and items are unchanged         *)
(* afterwards and generate_report returns the same report as before.       *)
(***************************************************************************)
C10Theorem ==
  [][(ret'.op = "send_report_to_parent" /\ ret'.arg[2] \in 1..Len(SmtpSteps)) =>
       LET before == generate_report(variant, courses, ret'.arg[1])
           after  == generate_report(variant', courses', ret'.arg[1])
       IN  /\ courses' = courses
           /\ after = before
           /\ ~before.raised => (~ret'.raised /\ printed' = "Failed to send email")
    ]_vars

\* sendmail (step 4) failed for a student with a course and an item: the call
\* returned and logged the failure
C10Witness ==
  /\ ret.op = "send_report_to_parent"
  /\ ret.arg[2] \in 1..Len(SmtpSteps)
  /\ SmtpSteps[ret.arg[2]] = "sendmail"
  /\ TotalItems(courses) > 0
  /\ ~ret.raised
  /\ printed = "Failed to send email"

(***************************************************************************)
(* C11: in joseph, check_retakes returns exactly the names of the modules  *)
(* whose score is strictly below 50, in insertion order and once per       *)
(* added module, whatever else the module holds: a module with score 50    *)
(* is left out.                                                            *)
(***************************************************************************)
C11Retakes(c) == { k \in 1..Len(c.assignments) : c.assignments[k].score < 50 }

C11Theorem ==
  ret.op = "check_retakes" =>
    LET as == RetCourse.assignments
        S  == C11Retakes(RetCourse)
    IN  /\ Len(ret.val) = Cardinality(S)
        /\ \E f \in [1..Len(ret.val) -> S] :
              /\ \A j, k \in 1..Len(ret.val) : j < k => f[j] < f[k]
              /\ \A j \in 1..Len(ret.val) : ret.val[j] = as[f[j]].name

\* Two modules named X below 50 around a module at exactly 50: X is named twice
C11Witness ==
  /\ ret.op = "check_retakes"
  /\ RetCourse.assignments = << Module("X", 10, 20), Module("Y", 50, 10),
                                Module("X", 49, 10) >>
  /\ ret.val = <<"X", "X">>

(***************************************************************************)
(* C12: the writes to confirmation_store of simultaneous /confirm_view     *)
(* requests are a data race: nothing serializes the handlers, so while one *)
(* handler is at its write the server takes up the next waiting            *)
(* /confirm_view request, whose handler then writes concurrently.          *)
(***************************************************************************)
C12Writing(h) == handlers[h].line = "store"

C12Claimed ==
  ( /\ \E h \in 1..Len(handlers) : C12Writing(h)
    /\ backlog # <<>>
    /\ StartsWith(Head(backlog), "confirm_view") )
  => ENABLED process_request

(***************************************************************************)
(* C12, as the code has it: the server runs one handler at a time.  No two *)
(* handlers are inside do_GET together, so no two are at the write to      *)
(* confirmation_store together, and a request that arrives meanwhile waits *)
(* until the running handler has returned.                                 *)
(***************************************************************************)
C12Theorem ==
  /\ Len(handlers) <= 1
  /\ \A j, k \in 1..Len(handlers) : C12Writing(j) /\ C12Writing(k) => j = k
  /\ handlers # <<>> => ~ENABLED process_request

\* Two simultaneous /confirm_view requests: one at its write, the other waiting
C12Witness ==
  /\ Len(handlers) = 1
  /\ C12Writing(1)
  /\ handlers[1].path = <<"", "confirm_view", "a">>
  /\ backlog = << <<"", "confirm_view", "b">> >>

(***************************************************************************)
(* C13: in il, generate_report writes for a course the line "Warning:      *)
(* Attendance is below 100%..." exactly when the attendance percentage of  *)
(* that course is below 100, and the line of good standing otherwise, also *)
(* when more Present entries than total_sessions are recorded.             *)
(***************************************************************************)
C13Below(c) == FLt(calculate_attendance(c).val, FFromInt(100))

C13Claimed ==
  (ret.op = "generate_report" /\ variant = "il" /\ ~ret.raised) =>
    \A i \in 1..Len(courses) :
       /\ C13Below(courses[i]) <=>
             ret.val.sections[i].standing = "Warning: Attendance is below 100%."
       /\ ~C13Below(courses[i]) <=>
             ret.val.sections[i].standing = "Attendance is in good standing (100%)."

(***************************************************************************)
(* C14: a course without a Formative item, or without a Summative item, or *)
(* whose Formative items or whose Summative items all have weight 0, never *)
(* passes: check_progression returns passed = False, whatever the scores   *)
(* of the other items, and the percentage of the missing group is 0.       *)
(***************************************************************************)
C14Missing(c, g) == \A k \in Matching(c, g) : c.assignments[k].weight = 0

C14Theorem ==
  ret.op = "check_progression" =>
    /\ C14Missing(RetCourse, "Formative") => ~ret.val[1] /\ ret.val[2] = FZero
    /\ C14Missing(RetCourse, "Summative") => ~ret.val[1] /\ ret.val[3] = FZero

\* A Formative item of score 50 and weight 0 beside a Summative group at its
\* threshold: the course does not pass
C14Witness ==
  /\ ret.op = "check_progression"
  /\ RetCourse.assignments = << Assignment("Z", 50, 0, "Formative"),
                                Assignment("D", 20, 10, "Summative") >>
  /\ ret.val[1] = FALSE
  /\ ret.val[2] = FZero
  /\ DCmp(ret.val[3], DInt(20)) = 0

(***************************************************************************)
(* C15: the operations that only ask (calculate_group_score,               *)
(* check_progression, get_resubmission_candidates, calculate_attendance,   *)
(* generate_transcript, calculate_gpa, generate_report) leave the list of  *)
(* courses, the items of every course and their order, and every           *)
(* attendance log as they were.  generate_transcript returns a new         *)
(* sequence: the detailed table of the report lists the items in insertion *)
(* order, course after course, for both sort orders, and a generate_report *)
(* that follows another with the same sort_order returns the same report.  *)
(***************************************************************************)
C15Queries ==
  { "calculate_group_score", "check_progression", "get_resubmission_candidates",
    "calculate_attendance", "generate_transcript", "calculate_gpa",
    "generate_report" }

C15Table(cs, table) ==
  LET items == AllItems(cs)
  IN  /\ Len(table) = Len(items)
      /\ \A k \in 1..Len(table) :
            /\ table[k][2] = items[k].name
            /\ table[k][3] = items[k].score
            /\ table[k][4] = items[k].weight
      /\ \A j, k \in 1..Len(table) : j < k => table[j][1] <= table[k][1]

C15Theorem ==
  [][/\ ret'.op \in C15Queries => courses' = courses
     /\ (ret'.op = "generate_report" /\ ~ret'.raised) =>
           C15Table(courses, ret'.val.table)
     /\ (ret.op = "generate_report" /\ ret'.op = "generate_report"
           /\ ret'.arg = ret.arg) => ret' = ret
    ]_vars

\* A descending report of one course that holds X (49) before Y (50): the
\* transcript starts with Y, the detailed table and the course still with X
C15Witness ==
  /\ ret.op = "generate_report"
  /\ ret.arg = <<"descending">>
  /\ ~ret.raised
  /\ Len(courses) = 2
  /\ Names(courses[1].assignments) = <<"X", "Y">>
  /\ ret.val.sections[1].transcript[1][1] = "Y"
  /\ ret.val.table[1][2] = "X"

====
